---- MODULE Spec2Model ----
(***************************************************************************)
(* A model of the BW dependency analyser: the dependency-log parser        *)
(* (parse_dependency_csv), the path identity resolver                      *)
(* (_infer_usecase_provider_from_parts), the three discovery strategies,   *)
(* the aggregator (build_analysis_outputs) and the Streamlit script that   *)
(* drives them.                                                            *)
(*                                                                         *)
(* Python strings are modelled as sequences of one-character strings, so   *)
(* that lower(), upper(), strip(), split(), splitlines(), substring tests  *)
(* and the csv reader are computed character by character, and string      *)
(* comparison is Python's (lexicographic by code point).                   *)
(***************************************************************************)
EXTENDS Integers, Sequences, FiniteSets, TLC

VARIABLES
    \* --- parser harness ---
    text,        \* the log text handed to parse_dependency_csv
    pphase,      \* "build" while the text is being written, "parsed" after
    fms,         \* result of bw_utils.parse_dependency_csv(text)
    nlines,      \* number of lines written to the text
    csvRows,     \* the rows csv.reader made of the text (the columns consulted)
    fmsLegacy,   \* result of utils.parse_dependency_csv(text)
    \* --- resolver harness ---
    segs,        \* the path segments handed to the resolver
    rphase,      \* "build" while the path is being written, "resolved" after
    resolved,    \* result of _infer_usecase_provider_from_parts(segs)
    \* --- aggregator harness ---
    records,     \* the records handed to build_analysis_outputs
    aphase,      \* "build" while the batch is being written, "done" after
    outcome,     \* "none", "ok" (the tables were returned) or "KeyError"
    tables,      \* the four tables build_analysis_outputs returned
    \* --- one run of the Streamlit script ---
    pc,             \* where the script is
    mode,           \* the input mode chosen: "zip", "files", "local"
    parsed_records, \* the records discovery has made so far
    nscanned,       \* archive members or directories scanned so far
    lastInput,      \* the member, directory or upload last processed
    lastEmitted,    \* the records it added
    messages,       \* what the user has been told
    failure,        \* the exception that ended the script, or "none"
    run_analysis,   \* the Start Analysis button was pressed
    analysis,       \* <<outcome, tables>> of build_analysis_outputs
    exported        \* create_excel_workbook was reached

parserVars == <<text, nlines, pphase, csvRows, fms, fmsLegacy>>

resolverVars == <<segs, rphase, resolved>>

aggVars == <<records, aphase, outcome, tables>>

appVars == <<pc, mode, parsed_records, nscanned, lastInput, lastEmitted, messages,
             failure, run_analysis, analysis, exported>>

vars == <<parserVars, resolverVars, aggVars, appVars>>

notParserVars == <<resolverVars, aggVars, appVars>>

notResolverVars == <<parserVars, aggVars, appVars>>

notAggVars == <<parserVars, resolverVars, appVars>>

notAppVars == <<parserVars, resolverVars, aggVars>>

-----------------------------------------------------------------------------
(* Characters and strings *)

\* The printable ASCII characters, code points 32..126, in code-point order
\* (code point 96, which a TLA+ string cannot hold, is a placeholder).
Printable ==
  <<
     " ", "!", "\"", "#", "$", "%", "&", "'", "(", ")", "*", "+", ",", "-", ".", "/",
     "0", "1", "2", "3", "4", "5", "6", "7", "8", "9", ":", ";", "<", "=", ">", "?",
     "@", "A", "B", "C", "D", "E", "F", "G", "H", "I", "J", "K", "L", "M", "N", "O",
     "P", "Q", "R", "S", "T", "U", "V", "W", "X", "Y", "Z", "[", "\\", "]", "^", "_",
     "(backtick)", "a", "b", "c", "d", "e", "f", "g", "h", "i", "j", "k", "l", "m", "n", "o",
     "p", "q", "r", "s", "t", "u", "v", "w", "x", "y", "z", "{", "|", "}", "~"
  >>

\* ord(c) for the characters the model uses.
Code(c) ==
    IF c = "\t" THEN 9
    ELSE IF c = "\n" THEN 10
    ELSE IF c = "\r" THEN 13
    ELSE 31 + (CHOOSE i \in 1..Len(Printable) : Printable[i] = c)

\* str.lower() / str.upper() on one ASCII character.
LowerChar(c) ==
    IF Code(c) >= 65 /\ Code(c) <= 90 THEN Printable[Code(c) + 32 - 31] ELSE c

UpperChar(c) ==
    IF Code(c) >= 97 /\ Code(c) <= 122 THEN Printable[Code(c) - 32 - 31] ELSE c

Lower(s) == [i \in 1..Len(s) |-> LowerChar(s[i])]

Upper(s) == [i \in 1..Len(s) |-> UpperChar(s[i])]

\* Characters str.strip() removes (str.isspace) among those the model uses.
IsSpace(c) == c \in {" ", "\t", "\n", "\r"}

RECURSIVE LStrip(_)
LStrip(s) ==
    IF s # <<>> /\ IsSpace(Head(s)) THEN LStrip(Tail(s)) ELSE s

RECURSIVE RStrip(_)
RStrip(s) ==
    IF s # <<>> /\ IsSpace(s[Len(s)]) THEN RStrip(SubSeq(s, 1, Len(s) - 1)) ELSE s

\* str.strip()
Strip(s) == RStrip(LStrip(s))

\* `sub in s` for strings
Contains(sub, s) ==
    \E i \in 1..(Len(s) - Len(sub) + 1) : SubSeq(s, i, i + Len(sub) - 1) = sub

\* s.endswith(suffix)
EndsWith(s, suffix) ==
    /\ Len(s) >= Len(suffix)
    /\ SubSeq(s, Len(s) - Len(suffix) + 1, Len(s)) = suffix

\* Python's str < str: lexicographic by code point, a proper prefix first.
RECURSIVE StrLess(_, _)
StrLess(a, b) ==
    IF b = <<>> THEN FALSE
    ELSE IF a = <<>> THEN TRUE
    ELSE IF Head(a) = Head(b) THEN StrLess(Tail(a), Tail(b))
    ELSE Code(Head(a)) < Code(Head(b))

StrLeq(a, b) == a = b \/ StrLess(a, b)

\* sorted(S) for a set of strings
RECURSIVE Sorted(_)
Sorted(S) ==
    IF S = {} THEN <<>>
    ELSE LET m == CHOOSE x \in S : \A y \in S : StrLeq(x, y)
         IN  <<m>> \o Sorted(S \ {m})

\* The elements of a sequence
Range(s) == {s[i] : i \in 1..Len(s)}

\* s.split(sep) for a one-character separator: the pieces between separators,
\* empty pieces kept.
RECURSIVE SplitFrom(_, _, _, _)
SplitFrom(s, sep, cur, acc) ==
    IF s = <<>> THEN Append(acc, cur)
    ELSE IF Head(s) = sep THEN SplitFrom(Tail(s), sep, <<>>, Append(acc, cur))
    ELSE SplitFrom(Tail(s), sep, Append(cur, Head(s)), acc)

Split(s, sep) == SplitFrom(s, sep, <<>>, <<>>)

\* sep.join(parts)
RECURSIVE Join(_, _)
Join(parts, sep) ==
    IF parts = <<>> THEN <<>>
    ELSE IF Len(parts) = 1 THEN parts[1]
    ELSE parts[1] \o sep \o Join(Tail(parts), sep)

\* str.splitlines(): a line ends at \n, \r or \r\n; the terminators are dropped
\* and a terminator at the very end opens no further line.
RECURSIVE SplitLinesFrom(_, _, _)
SplitLinesFrom(s, cur, acc) ==
    IF s = <<>> THEN (IF cur = <<>> THEN acc ELSE Append(acc, cur))
    ELSE IF Head(s) = "\r" /\ Len(s) >= 2 /\ s[2] = "\n"
         THEN SplitLinesFrom(Tail(Tail(s)), <<>>, Append(acc, cur))
    ELSE IF Head(s) \in {"\n", "\r"}
         THEN SplitLinesFrom(Tail(s), <<>>, Append(acc, cur))
    ELSE SplitLinesFrom(Tail(s), Append(cur, Head(s)), acc)

SplitLines(s) == SplitLinesFrom(s, <<>>, <<>>)

-----------------------------------------------------------------------------
(* csv.reader(lines, delimiter=';') with the default (excel) dialect:         *)
(* quotechar '"', doublequote, no escapechar, not strict.  The reader is the  *)
(* state machine of CPython's _csv module; the states EAT_CRNL and the escape *)
(* states are left out because a line that comes from splitlines() holds no   *)
(* \n or \r and the dialect has no escapechar.                                *)

DELIMITER == ";"

QUOTECHAR == "\""

\* The end-of-line marker the reader feeds itself after the last character of
\* each line (not a character: no one-character string equals it).
EOL == "EOL"

CsvStart == [state |-> "START_RECORD", fields |-> <<>>, cur |-> <<>>]

\* parse_save_field: the field being collected becomes the record's next field.
SaveField(st, next) ==
    [state |-> next, fields |-> Append(st.fields, st.cur), cur |-> <<>>]

\* parse_add_char
AddChar(st, c, next) ==
    [state |-> next, fields |-> st.fields, cur |-> Append(st.cur, c)]

\* parse_process_char in the states START_FIELD .. QUOTE_IN_QUOTED_FIELD
ProcessInField(st, c) ==
    CASE st.state = "START_FIELD" ->
           IF c = EOL THEN SaveField(st, "START_RECORD")
           ELSE IF c = QUOTECHAR THEN [st EXCEPT !.state = "IN_QUOTED_FIELD"]
           ELSE IF c = DELIMITER THEN SaveField(st, "START_FIELD")
           ELSE AddChar(st, c, "IN_FIELD")
      [] st.state = "IN_FIELD" ->
           IF c = EOL THEN SaveField(st, "START_RECORD")
           ELSE IF c = DELIMITER THEN SaveField(st, "START_FIELD")
           ELSE AddChar(st, c, "IN_FIELD")
      [] st.state = "IN_QUOTED_FIELD" ->
           IF c = EOL THEN st
           ELSE IF c = QUOTECHAR THEN [st EXCEPT !.state = "QUOTE_IN_QUOTED_FIELD"]
           ELSE AddChar(st, c, "IN_QUOTED_FIELD")
      [] st.state = "QUOTE_IN_QUOTED_FIELD" ->
           IF c = QUOTECHAR THEN AddChar(st, c, "IN_QUOTED_FIELD")
           ELSE IF c = DELIMITER THEN SaveField(st, "START_FIELD")
           ELSE IF c = EOL THEN SaveField(st, "START_RECORD")
           ELSE AddChar(st, c, "IN_FIELD")

\* parse_process_char: START_RECORD falls through to START_FIELD on a character
\* and stays (an empty record) on the end of an empty line.
ProcessChar(st, c) ==
    IF st.state = "START_RECORD"
    THEN IF c = EOL THEN st
         ELSE ProcessInField([st EXCEPT !.state = "START_FIELD"], c)
    ELSE ProcessInField(st, c)

\* One line fed to the reader: its characters, then the end-of-line marker.
RECURSIVE ProcessLine(_, _)
ProcessLine(st, line) ==
    IF line = <<>> THEN ProcessChar(st, EOL)
    ELSE ProcessLine(ProcessChar(st, Head(line)), Tail(line))

\* Reader_iternext, repeated to the end of the input: a record ends when a
\* line leaves the reader in START_RECORD; a line that ends inside a quoted
\* field continues the record with the next line; at the end of the input an
\* open quoted field (or collected characters) is saved as the last field.
RECURSIVE ReadRows(_, _, _)
ReadRows(lines, st, acc) ==
    IF lines = <<>>
    THEN IF st.cur # <<>> \/ st.state = "IN_QUOTED_FIELD"
         THEN Append(acc, Append(st.fields, st.cur))
         ELSE acc
    ELSE LET st2 == ProcessLine(st, Head(lines))
         IN  IF st2.state = "START_RECORD"
             THEN ReadRows(Tail(lines), CsvStart, Append(acc, st2.fields))
             ELSE ReadRows(Tail(lines), st2, acc)

CsvReader(lines) == ReadRows(lines, CsvStart, <<>>)

-----------------------------------------------------------------------------
(* parse_dependency_csv *)

STR_FM == <<"F", "M">>

STR_KIND == <<"K", "I", "N", "D">>

STR_CALL_FUNCTION == <<"C", "A", "L", "L", " ", "F", "U", "N", "C", "T", "I", "O", "N">>

\* The extraction rule applied to the three consulted columns.
IsFmCall(kind, where) == kind = STR_FM /\ Contains(STR_CALL_FUNCTION, where)

\* bw_utils.py: the body of `for row in rows` for one row: the name the row
\* adds to fms, as a set (empty when the row adds none).
RowFms(row) ==
    IF Len(row) < 5 THEN {}
    ELSE IF IsFmCall(Upper(Strip(row[3])), Upper(Strip(row[5])))
         THEN {Strip(row[4])}
         ELSE {}

\* bw_utils.py: what the first row adds to fms.  A row that is empty, or that
\* has at least 5 columns and KIND in column 2, adds nothing; any other first
\* row is treated as data, a missing column read as "".
HeaderFms(header) ==
    IF header # <<>> /\ (Len(header) < 5 \/ Upper(Strip(header[3])) # STR_KIND)
    THEN LET kind  == IF Len(header) > 2 THEN Upper(Strip(header[3])) ELSE <<>>
             name  == IF Len(header) > 3 THEN Strip(header[4]) ELSE <<>>
             where == IF Len(header) > 4 THEN Upper(Strip(header[5])) ELSE <<>>
         IN  IF IsFmCall(kind, where) THEN {name} ELSE {}
    ELSE {}

\* bw_utils.parse_dependency_csv: the sorted list of the FM names of the text.
parse_dependency_csv(t) ==
    LET rs == CsvReader(SplitLines(t))
    IN  IF rs = <<>> THEN <<>>
        ELSE Sorted(HeaderFms(rs[1])
                    \cup UNION {RowFms(rs[i]) : i \in 2..Len(rs)})

\* utils.parse_dependency_csv: the older copy, which skips the first row
\* whatever it holds (next(rows, None)).
utils_parse_dependency_csv(t) ==
    LET rs == CsvReader(SplitLines(t))
    IN  Sorted(UNION {RowFms(rs[i]) : i \in 2..Len(rs)})

-----------------------------------------------------------------------------
(* The parser on bounded texts: a text is written row by row, then parsed.   *)

\* Most lines a text holds.
MaxLines == 2

\* Cells of the three consulted columns.  Kinds: FM in lower case with blanks
\* around it, the header's word, another kind.
KindCells == {<<" ", "f", "m", " ">>, <<"K", "i", "n", "d">>, <<"T", "Y">>}

NameCells == {<<" ", "Z", "_", "A", " ">>, <<"Z", "_", "B">>}

WhereCells == {<<"x", " ", "C", "a", "l", "l", " ", "F", "u", "n", "c", "t", "i", "o", "n", " ", "y">>, <<"R", "E", "A", "D">>}

\* The shapes of a row: seven columns; five; four (too short); five with a
\* quoted second column that holds a semicolon; five with the name in quotes;
\* five with a quote opened in the last column and never closed.
RowShapes == {"seven", "five", "four", "quotedSemi", "quotedName", "openQuote"}

Q == <<QUOTECHAR>>

SEMI == <<DELIMITER>>

Row(shape, kind, name, where) ==
    CASE shape = "seven" ->
           Join(<<<<"1">>, <<"C">>, kind, name, where, <<"1", "0">>, <<>>>>, SEMI)
      [] shape = "five" -> Join(<<<<"1">>, <<"C">>, kind, name, where>>, SEMI)
      [] shape = "four" -> Join(<<<<"1">>, <<"C">>, kind, name>>, SEMI)
      [] shape = "quotedSemi" ->
           Join(<<<<"1">>, Q \o <<"C", ";", "D">> \o Q, kind, name, where>>, SEMI)
      [] shape = "quotedName" ->
           Join(<<<<"1">>, <<"C">>, kind, Q \o name \o Q, where>>, SEMI)
      [] shape = "openQuote" ->
           Join(<<<<"1">>, <<"C">>, kind, name, Q \o where>>, SEMI)

\* The rows a text is written from; the empty row is a blank line.
Rows ==
    {<<>>} \cup {Row(sh, k, n, w) :
                   sh \in RowShapes, k \in KindCells, n \in NameCells, w \in WhereCells}

NL == <<"\n">>

ParserInit ==
    /\ text = <<>>
    /\ nlines = 0
    /\ pphase = "build"
    /\ csvRows = <<>>
    /\ fms = <<>>
    /\ fmsLegacy = <<>>

\* One more line of text.
AddRow ==
    /\ pphase = "build"
    /\ nlines < MaxLines
    /\ \E r \in Rows :
         text' = IF nlines = 0 THEN r ELSE text \o NL \o r
    /\ nlines' = nlines + 1
    /\ UNCHANGED <<pphase, csvRows, fms, fmsLegacy>>
    /\ UNCHANGED notParserVars

\* The text ends with a line terminator.
EndWithNewline ==
    /\ pphase = "build"
    /\ nlines > 0
    /\ text' = text \o NL
    /\ pphase' = "closed"
    /\ UNCHANGED <<nlines, csvRows, fms, fmsLegacy>>
    /\ UNCHANGED notParserVars

\* The text is parsed, by bw_utils.py and by utils.py.
Parse ==
    /\ pphase \in {"build", "closed"}
    /\ csvRows' = CsvReader(SplitLines(text))
    /\ fms' = parse_dependency_csv(text)
    /\ fmsLegacy' = utils_parse_dependency_csv(text)
    /\ pphase' = "parsed"
    /\ UNCHANGED <<text, nlines>>
    /\ UNCHANGED notParserVars

ParserNext == AddRow \/ EndWithNewline \/ Parse

-----------------------------------------------------------------------------
(* The parser's contract, stated on the text itself: a row is a line of the  *)
(* text and its columns are the pieces between its semicolons.               *)

Columns(line) == Split(line, DELIMITER)

\* A line is an FM reference: at least 5 columns, FM in column 2 and CALL
\* FUNCTION within column 4, both trimmed and upper-cased.
Qualifies(line) ==
    LET cols == Columns(line)
    IN  /\ Len(cols) >= 5
        /\ Upper(Strip(cols[3])) = STR_FM
        /\ Contains(STR_CALL_FUNCTION, Upper(Strip(cols[5])))

\* The trimmed names of the qualifying lines.
NamesOf(lines) ==
    {Strip(Columns(lines[i])[4]) : i \in {j \in 1..Len(lines) : Qualifies(lines[j])}}

\* The lines without line i.
WithoutLine(lines, i) == SubSeq(lines, 1, i - 1) \o SubSeq(lines, i + 1, Len(lines))

\* A header line: at least 5 columns, KIND (any case) in column 2.
IsHeaderLine(line) ==
    /\ Len(Columns(line)) >= 5
    /\ Upper(Strip(Columns(line)[3])) = STR_KIND

\* C1: for every text, the parser returns exactly the trimmed names of the
\* lines with at least 5 semicolon-separated columns, FM in column 2 and CALL
\* FUNCTION in column 4, each name once, and a line with fewer than 5 columns
\* makes no difference to the result.
C1_ExactFmSet ==
    pphase = "parsed" =>
        LET lines == SplitLines(text)
        IN  /\ Range(fms) = NamesOf(lines)
            /\ Len(fms) = Cardinality(Range(fms))
            /\ \A i \in 1..Len(lines) :
                 Len(Columns(lines[i])) < 5 =>
                   parse_dependency_csv(Join(WithoutLine(lines, i), NL)) = fms

\* C2: no row is dropped because it is the first: a first line that is not a
\* header is evaluated like any other line, and a text with a header line and
\* the same text without it give the same FM names.  Stated of both copies of
\* parse_dependency_csv (bw_utils.py and utils.py).
C2_FirstRowNotDropped ==
    pphase = "parsed" =>
        LET lines == SplitLines(text)
        IN  lines # <<>> =>
              /\ (~IsHeaderLine(lines[1]) /\ Qualifies(lines[1])) =>
                   /\ Strip(Columns(lines[1])[4]) \in Range(fms)
                   /\ Strip(Columns(lines[1])[4]) \in Range(fmsLegacy)
              /\ IsHeaderLine(lines[1]) =>
                   /\ fms = parse_dependency_csv(Join(Tail(lines), NL))
                   /\ fmsLegacy = utils_parse_dependency_csv(Join(Tail(lines), NL))

\* C3: every line is split strictly on `;`: the rows the parser consults are
\* the lines, one row per line, and a row's columns are the pieces of its line
\* between semicolons (a blank line has no columns); a double quote neither
\* merges two pieces nor joins a line with the next.
C3_StrictSplit ==
    pphase = "parsed" =>
        LET lines == SplitLines(text)
        IN  /\ Len(csvRows) = Len(lines)
            /\ \A i \in 1..Len(lines) :
                 i <= Len(csvRows) =>
                   csvRows[i] = IF lines[i] = <<>> THEN <<>> ELSE Columns(lines[i])

-----------------------------------------------------------------------------
(* _infer_usecase_provider_from_parts *)

STR_transformations == <<"t", "r", "a", "n", "s", "f", "o", "r", "m", "a", "t", "i", "o", "n", "s">>

\* Python's None; no string (a sequence of characters) equals it.
None == "None"

NotResolvable == <<None, None>>

\* [p.lower() for p in parts]
LowerParts(parts) == [i \in 1..Len(parts) |-> Lower(parts[i])]

\* list.index(x), counted from 1: the position of the first element equal to
\* x.  Only used when x is in the list.
RECURSIVE IndexFrom(_, _, _)
IndexFrom(list, x, i) ==
    IF list[i] = x THEN i ELSE IndexFrom(list, x, i + 1)

Index(list, x) == IndexFrom(list, x, 1)

\* The variant a slip would give: the last match instead of the first.
infer_last_match(parts) ==
    LET lower_parts == LowerParts(parts)
        hits == {i \in 1..Len(parts) : lower_parts[i] = STR_transformations}
    IN  IF hits = {} THEN NotResolvable
        ELSE LET idx == CHOOSE i \in hits : \A j \in hits : j <= i
             IN  IF idx - 2 < 1 THEN NotResolvable
                 ELSE <<parts[idx - 2], parts[idx - 1]>>

\* Returns <<usecase, provider>>, or <<None, None>>.  Python counts idx from 0
\* and tests idx - 2 < 0; here positions count from 1.
_infer_usecase_provider_from_parts(parts) ==
    LET lower_parts == LowerParts(parts)
    IN  IF STR_transformations \notin Range(lower_parts) THEN NotResolvable
        ELSE LET idx == Index(lower_parts, STR_transformations)
             IN  IF idx - 2 < 1 THEN NotResolvable
                 ELSE <<parts[idx - 2], parts[idx - 1]>>

-----------------------------------------------------------------------------
(* The resolver on bounded segment lists. *)

\* Most segments a path holds.
MaxParts == 4

\* Segments a path is made of: two folder names, the anchor in three
\* casings, a name one letter short of the anchor, and a file name.
SEG_A == <<"U", "C", "1">>

SEG_B == <<"p", "r", "o", "v">>

SEG_T1 == <<"T", "r", "a", "n", "s", "f", "o", "r", "m", "a", "t", "i", "o", "n", "s">>

SEG_T2 == <<"T", "R", "A", "N", "S", "F", "O", "R", "M", "A", "T", "I", "O", "N", "S">>

SEG_T3 == <<"t", "r", "a", "n", "s", "f", "o", "r", "m", "a", "t", "i", "o", "n", "s">>

SEG_NEAR == <<"T", "r", "a", "n", "s", "f", "o", "r", "m", "a", "t", "i", "o", "n">>

Segments == {SEG_A, SEG_B, SEG_T1, SEG_T2, SEG_T3, SEG_NEAR}

ResolverInit ==
    /\ segs = <<>>
    /\ rphase = "build"
    /\ resolved = NotResolvable

\* One more segment at the end of the path.
AddSegment ==
    /\ rphase = "build"
    /\ Len(segs) < MaxParts
    /\ \E s \in Segments : segs' = Append(segs, s)
    /\ UNCHANGED <<rphase, resolved>>
    /\ UNCHANGED notResolverVars

\* The path is resolved.
Resolve ==
    /\ rphase = "build"
    /\ resolved' = _infer_usecase_provider_from_parts(segs)
    /\ rphase' = "resolved"
    /\ UNCHANGED segs
    /\ UNCHANGED notResolverVars

ResolverNext == AddSegment \/ Resolve

\* C4: the resolver returns NotResolvable when no segment equals
\* "transformations" case-insensitively or fewer than two segments precede
\* the first such segment; otherwise the two segments just before the first
\* match, in their original casing, whatever matches follow it.
C4_Resolver ==
    rphase = "resolved" =>
        LET hits == {i \in 1..Len(segs) : Lower(segs[i]) = STR_transformations}
        IN  IF hits = {} THEN resolved = NotResolvable
            ELSE LET first == CHOOSE i \in hits : \A j \in hits : i <= j
                 IN  IF first - 1 < 2 THEN resolved = NotResolvable
                     ELSE /\ resolved[1] = segs[first - 2]
                          /\ resolved[2] = segs[first - 1]

\* A path with two anchors, the first with two segments before it, resolved
\* to those two segments in their own casing.
C4_Witness ==
    /\ rphase = "resolved"
    /\ segs = <<SEG_A, SEG_B, SEG_T2, SEG_T1>>
    /\ resolved = <<SEG_A, SEG_B>>

-----------------------------------------------------------------------------
(* build_analysis_outputs *)

\* ", " as in ", ".join(...)
COMMA_SPACE == <<",", " ">>

\* How many FMs the summary lists: fm_freq.head(5).
TopN == 5

\* fm_to_usecases is a dict: here a sequence of [fm, ucs] entries in insertion
\* order, one per key.
DictKeys(dict) == [i \in 1..Len(dict) |-> dict[i].fm]

\* The variant a slip would give: the set replaced instead of extended.
DictAddOverwrite(dict, fm, usecase) ==
    IF fm \in Range(DictKeys(dict))
    THEN [i \in 1..Len(dict) |->
            IF dict[i].fm = fm THEN [fm |-> fm, ucs |-> {usecase}] ELSE dict[i]]
    ELSE Append(dict, [fm |-> fm, ucs |-> {usecase}])

\* fm_to_usecases.setdefault(fm, set()).add(usecase)
DictAdd(dict, fm, usecase) ==
    IF fm \in Range(DictKeys(dict))
    THEN [i \in 1..Len(dict) |->
            IF dict[i].fm = fm THEN [fm |-> fm, ucs |-> dict[i].ucs \cup {usecase}]
            ELSE dict[i]]
    ELSE Append(dict, [fm |-> fm, ucs |-> {usecase}])

\* for fm in fms: ...
RECURSIVE AddFms(_, _, _)
AddFms(dict, fmlist, usecase) ==
    IF fmlist = <<>> THEN dict
    ELSE AddFms(DictAdd(dict, Head(fmlist), usecase), Tail(fmlist), usecase)

\* The variant a slip would give: a record without FMs counted under an empty
\* FM name.
RECURSIVE FmToUsecasesBlank(_, _)
FmToUsecasesBlank(recs, dict) ==
    IF recs = <<>> THEN dict
    ELSE FmToUsecasesBlank(
             Tail(recs),
             AddFms(dict,
                    IF Head(recs).fms = <<>> THEN <<<<>>>> ELSE Head(recs).fms,
                    Head(recs).usecase))

\* for rec in records: ... (the reverse mapping)
RECURSIVE FmToUsecases(_, _)
FmToUsecases(recs, dict) ==
    IF recs = <<>> THEN dict
    ELSE FmToUsecases(Tail(recs), AddFms(dict, Head(recs).fms, Head(recs).usecase))

\* for rec in records: rows.append(...)
ForwardRows(recs) ==
    [i \in 1..Len(recs) |->
       [usecase  |-> recs[i].usecase,
        provider |-> recs[i].provider,
        fm_list  |-> Join(recs[i].fms, COMMA_SPACE)]]

\* Row a sorts before row b by (usecase, provider).
RowLess(a, b) ==
    \/ StrLess(a.usecase, b.usecase)
    \/ a.usecase = b.usecase /\ StrLess(a.provider, b.provider)

\* The variant a slip would give: a sort that is not stable, a row going
\* before the rows of the same (usecase, provider).
RECURSIVE InsertRowBeforeEqual(_, _)
InsertRowBeforeEqual(sorted, r) ==
    IF sorted = <<>> THEN <<r>>
    ELSE IF ~RowLess(Head(sorted), r) THEN <<r>> \o sorted
    ELSE <<Head(sorted)>> \o InsertRowBeforeEqual(Tail(sorted), r)

\* sort_values(["usecase", "provider"]): a sort on several columns is pandas'
\* lexsort, which is stable: a row goes after the rows that are not greater.
RECURSIVE InsertRow(_, _)
InsertRow(sorted, r) ==
    IF sorted = <<>> THEN <<r>>
    ELSE IF RowLess(r, Head(sorted)) THEN <<r>> \o sorted
    ELSE <<Head(sorted)>> \o InsertRow(Tail(sorted), r)

RECURSIVE SortRows(_, _)
SortRows(rws, sorted) ==
    IF rws = <<>> THEN sorted
    ELSE SortRows(Tail(rws), InsertRow(sorted, Head(rws)))

\* The ucs of key fm
UcsOf(dict, fm) == (CHOOSE e \in Range(dict) : e.fm = fm).ucs

\* df_fm_usecase: one row per key, sorted by fm (the keys are distinct).
FmUsecaseRows(dict) ==
    LET keys == Sorted(Range(DictKeys(dict)))
    IN  [i \in 1..Len(keys) |->
           [fm |-> keys[i],
            usecases |-> Join(Sorted(UcsOf(dict, keys[i])), COMMA_SPACE)]]

\* fm_freq = pd.Series({fm: len(ucs)}).sort_values(ascending=False): the keys
\* by count, greatest first.  The sort is numpy's default argsort, which is not
\* stable, so keys of equal count come in an order the build decides: every
\* order with non-increasing counts is a possible fm_freq.
RECURSIVE FreqOrders(_)
FreqOrders(entries) ==
    IF entries = {} THEN {<<>>}
    ELSE LET top == {e \in entries :
                       \A o \in entries : Cardinality(o.ucs) <= Cardinality(e.ucs)}
         IN  UNION {{<<e.fm>> \o rest : rest \in FreqOrders(entries \ {e})} : e \in top}

\* series.head(n)
HeadN(s, n) == SubSeq(s, 1, IF Len(s) < n THEN Len(s) ELSE n)

\* The function raises KeyError when a DataFrame it sorts has no rows: a
\* DataFrame made of an empty list has no columns, and sort_values by a column
\* name then fails.  That is so for no record at all (rows) and for no FM at
\* all (fm_to_usecases).
Raises(recs) == recs = <<>> \/ FmToUsecases(recs, <<>>) = <<>>

\* The four tables, given the order fm_freq came out in.
Tables(recs, freq) ==
    LET dict == FmToUsecases(recs, <<>>)
        df_usecase_provider == SortRows(ForwardRows(recs), <<>>)
    IN  [usecase_provider |-> df_usecase_provider,
         fm_usecase       |-> FmUsecaseRows(dict),
         unique_fms       |-> Sorted(Range(DictKeys(dict))),
         summary |->
           [total_use_cases  |-> Cardinality({r.usecase : r \in Range(df_usecase_provider)}),
            total_providers  |-> Cardinality({r.provider : r \in Range(df_usecase_provider)}),
            total_logs       |-> Len(recs),
            total_unique_fms |-> Len(Sorted(Range(DictKeys(dict)))),
            top5             |-> Join(HeadN(freq, TopN), COMMA_SPACE)]]

NoTables ==
    [usecase_provider |-> <<>>, fm_usecase |-> <<>>, unique_fms |-> <<>>,
     summary |-> [total_use_cases |-> 0, total_providers |-> 0, total_logs |-> 0,
                  total_unique_fms |-> 0, top5 |-> <<>>]]

\* build_analysis_outputs(recs): the outcomes <<outcome, tables>> it can have.
build_analysis_outputs(recs) ==
    IF Raises(recs) THEN {<<"KeyError", NoTables>>}
    ELSE {<<"ok", Tables(recs, freq)>> :
            freq \in FreqOrders(Range(FmToUsecases(recs, <<>>)))}

-----------------------------------------------------------------------------
(* The aggregator on bounded record lists. *)

\* Most records a batch holds.
MaxRecords == 3

UC_1 == <<"U", "C", "2">>

UC_2 == <<"u", "c", "1">>

PROV_1 == <<"P", "1">>

PROV_2 == <<"P", "2">>

FM_A == <<"Z", "_", "A">>

FM_B == <<"Z", "_", "B">>

FM_C == <<"Z", "_", "C">>

FM_D == <<"Z", "_", "D">>

FM_E == <<"Z", "_", "E">>

FM_F == <<"Z", "_", "F">>

\* FM lists as the parser returns them: sorted, without repeats.
FmLists == {<<>>, <<FM_A>>, <<FM_B>>, <<FM_A, FM_B>>}

RecordInputs ==
    [usecase : {UC_1, UC_2}, provider : {PROV_1, PROV_2}, fms : FmLists]

\* A record with more FMs than the summary lists.
WideRecord ==
    [usecase |-> UC_1, provider |-> PROV_1,
     fms |-> <<FM_A, FM_B, FM_C, FM_D, FM_E, FM_F>>]

AggInit ==
    /\ records = <<>>
    /\ aphase = "build"
    /\ outcome = "none"
    /\ tables = NoTables

\* One more record in the batch.
AddRecord ==
    /\ aphase = "build"
    /\ Len(records) < MaxRecords
    /\ WideRecord \notin Range(records)
    /\ \E r \in RecordInputs : records' = Append(records, r)
    /\ UNCHANGED <<aphase, outcome, tables>>
    /\ UNCHANGED notAggVars

\* A batch of the one wide record.
AddWideRecord ==
    /\ aphase = "build"
    /\ records = <<>>
    /\ records' = <<WideRecord>>
    /\ UNCHANGED <<aphase, outcome, tables>>
    /\ UNCHANGED notAggVars

\* build_analysis_outputs(records) is called.
Build ==
    /\ aphase = "build"
    /\ \E res \in build_analysis_outputs(records) :
         /\ outcome' = res[1]
         /\ tables' = res[2]
    /\ aphase' = "done"
    /\ UNCHANGED records
    /\ UNCHANGED notAggVars

AggNext == AddRecord \/ AddWideRecord \/ Build

-----------------------------------------------------------------------------
(* The aggregator's contract, stated on the records. *)

\* s.split(sep) for a separator of several characters.
RECURSIVE SplitStrFrom(_, _, _, _)
SplitStrFrom(s, sep, cur, acc) ==
    IF s = <<>> THEN Append(acc, cur)
    ELSE IF Len(s) >= Len(sep) /\ SubSeq(s, 1, Len(sep)) = sep
         THEN SplitStrFrom(SubSeq(s, Len(sep) + 1, Len(s)), sep, <<>>, Append(acc, cur))
    ELSE SplitStrFrom(Tail(s), sep, Append(cur, Head(s)), acc)

\* The names a comma-joined cell lists.
ListedNames(s) == Range(SplitStrFrom(s, COMMA_SPACE, <<>>, <<>>))

\* The FMs of all the records, and the use cases of the records that hold fm.
AllFms(recs) == UNION {Range(recs[i].fms) : i \in 1..Len(recs)}

UseCasesOf(recs, fm) ==
    {recs[i].usecase : i \in {j \in 1..Len(recs) : fm \in Range(recs[j].fms)}}

\* C5: in the returned tables, the FM names of FmToUseCasesTable and of
\* UniqueFmTable are both the union of the records' FM sets, and each FM lists
\* exactly the use cases of the records whose FM set holds it.
C5_ReverseMapping ==
    outcome = "ok" =>
        /\ {r.fm : r \in Range(tables.fm_usecase)} = AllFms(records)
        /\ Range(tables.unique_fms) = AllFms(records)
        /\ \A r \in Range(tables.fm_usecase) :
             ListedNames(r.usecases) = UseCasesOf(records, r.fm)

\* Tables returned for a batch where one FM is referenced from two use cases,
\* another from one, and one record has no FM.
C5_Witness ==
    /\ outcome = "ok"
    /\ \E r \in Range(tables.fm_usecase) : ListedNames(r.usecases) = {UC_1, UC_2}
    /\ \E r \in Range(tables.fm_usecase) : ListedNames(r.usecases) = {UC_2}
    /\ \E i \in 1..Len(records) : records[i].fms = <<>>

\* C6: for every non-empty batch, whatever number of records have no FM, the
\* call completes, UseCaseProviderTable has one row per record (a record
\* without FMs with an empty fm_list) and "Total Logs Processed" is the number
\* of records.
C6_CompletesWithEmptyFmSets ==
    (aphase = "done" /\ records # <<>>) =>
        /\ outcome = "ok"
        /\ Len(tables.usecase_provider) = Len(records)
        /\ tables.summary.total_logs = Len(records)
        /\ \A i \in 1..Len(records) :
             records[i].fms = <<>> =>
               \E r \in Range(tables.usecase_provider) :
                 /\ r.usecase = records[i].usecase
                 /\ r.provider = records[i].provider
                 /\ r.fm_list = <<>>

\* The FMs by number of distinct use cases, greatest first, FMs of equal count
\* by name ascending.
RECURSIVE RankedFms(_, _)
RankedFms(recs, S) ==
    IF S = {} THEN <<>>
    ELSE LET n(fm) == Cardinality(UseCasesOf(recs, fm))
             best == CHOOSE x \in S :
                       \A y \in S : n(x) > n(y) \/ (n(x) = n(y) /\ StrLeq(x, y))
         IN  <<best>> \o RankedFms(recs, S \ {best})

\* C7: "Top 5 Most Used FMs" lists the first min(5, number of FMs) FMs by
\* number of distinct use cases descending, FMs of equal count by name
\* ascending (so the list does not depend on the order of the records).
C7_Top5 ==
    outcome = "ok" =>
        LET ranked == RankedFms(records, AllFms(records))
        IN  tables.summary.top5 =
              Join(SubSeq(ranked, 1, IF Len(ranked) < 5 THEN Len(ranked) ELSE 5),
                   COMMA_SPACE)

-----------------------------------------------------------------------------
(* The aggregator's contract on a batch and the batch without one record.     *)

\* The batch without its i-th record.
WithoutRecord(recs, i) == SubSeq(recs, 1, i - 1) \o SubSeq(recs, i + 1, Len(recs))

\* The records of the batch that have no FM.
ZeroFmRecords == {i \in 1..Len(records) : records[i].fms = <<>>}

(* C13: a record with zero FMs never contributes to FmToUseCasesTable,        *)
(* UniqueFmTable or SummaryTable: the three tables of a batch that holds such *)
(* a record are those of the batch without it.                                *)
C13_ZeroFmRecordFrame ==
    aphase = "done" =>
        \A i \in ZeroFmRecords :
            \E res \in build_analysis_outputs(WithoutRecord(records, i)) :
                /\ res[1] = outcome
                /\ res[2].fm_usecase = tables.fm_usecase
                /\ res[2].unique_fms = tables.unique_fms
                /\ res[2].summary = tables.summary

(* C13 as amended: a record with zero FMs never contributes to                *)
(* FmToUseCasesTable, to UniqueFmTable or to the summary's "Total Unique FMs" *)
(* and "Top 5 Most Used FMs": they are those of the batch without it, and a   *)
(* batch that returns no tables without it returns none with it.  The         *)
(* summary's "Total Logs Processed" counts the record, and "Total Use Cases"  *)
(* and "Total Providers" count its use case and provider.                     *)
C13_ZeroFmRecordFrameAmended ==
    aphase = "done" =>
        \A i \in ZeroFmRecords :
            \E res \in build_analysis_outputs(WithoutRecord(records, i)) :
                /\ res[1] = outcome
                /\ res[2].fm_usecase = tables.fm_usecase
                /\ res[2].unique_fms = tables.unique_fms
                /\ res[2].summary.total_unique_fms = tables.summary.total_unique_fms
                /\ res[2].summary.top5 = tables.summary.top5
                /\ outcome = "ok" =>
                     /\ tables.summary.total_logs = res[2].summary.total_logs + 1
                     /\ tables.summary.total_use_cases =
                          Cardinality({records[j].usecase : j \in 1..Len(records)})
                     /\ tables.summary.total_providers =
                          Cardinality({records[j].provider : j \in 1..Len(records)})

\* C13: tables returned for a batch of a record with two FMs, a record
\* without FMs from another use case and provider, and a record with one FM.
C13_Witness ==
    /\ aphase = "done"
    /\ outcome = "ok"
    /\ Len(records) = 3
    /\ records[1].fms = <<FM_A, FM_B>>
    /\ records[2] = [usecase |-> UC_2, provider |-> PROV_2, fms |-> <<>>]
    /\ records[3] = [usecase |-> UC_1, provider |-> PROV_1, fms |-> <<FM_A>>]
    /\ records[1].usecase = UC_1 /\ records[1].provider = PROV_1
    /\ tables.summary.total_logs = 3
    /\ tables.summary.total_use_cases = 2
    /\ tables.summary.total_unique_fms = 2

\* Record i comes before record j in (use_case, provider) order, records of
\* the same (use_case, provider) in input order.
ComesBefore(recs, i, j) ==
    \/ StrLess(recs[i].usecase, recs[j].usecase)
    \/ /\ recs[i].usecase = recs[j].usecase
       /\ \/ StrLess(recs[i].provider, recs[j].provider)
          \/ recs[i].provider = recs[j].provider /\ i < j

\* The place of record i in that order.
PlaceOf(recs, i) == 1 + Cardinality({j \in 1..Len(recs) : ComesBefore(recs, j, i)})

\* s is in ascending order without repeats.
Ascending(s) == \A k \in 1..(Len(s) - 1) : StrLess(s[k], s[k + 1])

(* C14: the returned tables are ordered.  UseCaseProviderTable has its rows   *)
(* in ascending (use_case, provider) order, rows of equal (use_case,          *)
(* provider) in input order, each fm_list being the record's FM names in      *)
(* ascending order; FmToUseCasesTable has one row per distinct FM in          *)
(* ascending fm order, its use cases listed in ascending order; UniqueFmTable *)
(* is the ascending list of the distinct FM names, without repeats.           *)
C14_TableOrdering ==
    outcome = "ok" =>
        /\ Len(tables.usecase_provider) = Len(records)
        /\ \A i \in 1..Len(records) :
             tables.usecase_provider[PlaceOf(records, i)] =
               [usecase  |-> records[i].usecase,
                provider |-> records[i].provider,
                fm_list  |-> Join(Sorted(Range(records[i].fms)), COMMA_SPACE)]
        /\ Ascending([k \in 1..Len(tables.fm_usecase) |-> tables.fm_usecase[k].fm])
        /\ {r.fm : r \in Range(tables.fm_usecase)} = AllFms(records)
        /\ \A r \in Range(tables.fm_usecase) :
             r.usecases = Join(Sorted(UseCasesOf(records, r.fm)), COMMA_SPACE)
        /\ Ascending(tables.unique_fms)
        /\ Range(tables.unique_fms) = AllFms(records)

\* C14: tables returned for a batch given as (uc1, P1, Z_B), (UC2, P2, Z_A and
\* Z_B), (uc1, P1, Z_A): UC2 comes first, the two uc1 rows keep their order,
\* and Z_A lists UC2 before uc1.
C14_Witness ==
    /\ outcome = "ok"
    /\ records = <<[usecase |-> UC_2, provider |-> PROV_1, fms |-> <<FM_B>>],
                   [usecase |-> UC_1, provider |-> PROV_2, fms |-> <<FM_A, FM_B>>],
                   [usecase |-> UC_2, provider |-> PROV_1, fms |-> <<FM_A>>]>>
    /\ tables.usecase_provider[1].fm_list = FM_A \o COMMA_SPACE \o FM_B
    /\ tables.usecase_provider[2].fm_list = FM_B
    /\ tables.usecase_provider[3].fm_list = FM_A
    /\ tables.fm_usecase[1] =
         [fm |-> FM_A, usecases |-> UC_1 \o COMMA_SPACE \o UC_2]
    /\ tables.unique_fms = <<FM_A, FM_B>>

-----------------------------------------------------------------------------
(* Log discovery *)

STR_depend == <<"d", "e", "p", "e", "n", "d">>

STR_log == <<"l", "o", "g">>

STR_DOT_TXT == <<".", "t", "x", "t">>

STR_DOT_LOG == <<".", "l", "o", "g">>

STR_Transformations == <<"T", "r", "a", "n", "s", "f", "o", "r", "m", "a", "t", "i", "o", "n", "s">>

STR_NA == <<"N", "/", "A">>

SLASH == <<"/">>

BACKSLASH == <<"\\">>

DOT == <<".">>

\* The variant a slip would give: any name with "depend" and "log" accepted,
\* whatever its extension.
looks_like_any_extension(filename_lower) ==
    /\ Contains(STR_depend, filename_lower)
    /\ Contains(STR_log, filename_lower)

_looks_like_dependency_log(filename_lower) ==
    /\ Contains(STR_depend, filename_lower)
    /\ Contains(STR_log, filename_lower)
    /\ \/ EndsWith(filename_lower, STR_DOT_TXT)
       \/ EndsWith(filename_lower, STR_DOT_LOG)
       \/ "." \notin Range(filename_lower)

\* `not x` for a value that is None or a string
Falsy(x) == x = None \/ x = <<>>

\* One record of the batch
Record(usecase, provider, fmlist) ==
    [usecase |-> usecase, provider |-> provider, fms |-> fmlist]

\* A file as discovery sees it: its name, whether reading it succeeds, and the
\* text a successful read returns (decoded with errors="ignore", which never
\* fails).
File(name, readable, content) ==
    [name |-> name, readable |-> readable, content |-> content]

\* [p for p in pieces if p]
RECURSIVE NonEmpty(_)
NonEmpty(pieces) ==
    IF pieces = <<>> THEN <<>>
    ELSE (IF Head(pieces) # <<>> THEN <<Head(pieces)>> ELSE <<>>)
         \o NonEmpty(Tail(pieces))

\* str.replace(a, b) for single characters
Replace(s, a, b) == [i \in 1..Len(s) |-> IF s[i] = a THEN b ELSE s[i]]

(* scan_zip_structure, one member of zip_file.namelist().  The result is      *)
(* <<outcome, records>>: "skip" (no record), "record", or "raise" when        *)
(* zip_file.read(member) raises, which nothing in the function catches.       *)
ScanMember(member) ==
    IF EndsWith(member.name, SLASH) THEN <<"skip", <<>>>>
    ELSE IF ~(Contains(STR_depend, Lower(member.name))
              /\ Contains(STR_log, Lower(member.name)))
    THEN <<"skip", <<>>>>
    ELSE LET parts == NonEmpty(Split(member.name, "/"))
             id == _infer_usecase_provider_from_parts(parts)
         IN  IF Falsy(id[1]) \/ Falsy(id[2]) THEN <<"skip", <<>>>>
             ELSE IF ~member.readable THEN <<"raise", <<>>>>
             ELSE <<"record",
                    <<Record(id[1], id[2], parse_dependency_csv(member.content))>>>>

\* scan_local_directory: parts of the directory relative to the root.
RelParts(rel_path) ==
    IF rel_path = DOT THEN <<>>
    ELSE Split(Replace(rel_path, "\\", "/"), "/")

\* The variant a slip would give: no synthetic anchor.
EnsureAnchorNever(parts) == parts

\* scan_local_directory: "Ensure 'Transformations' anchor in parts".
EnsureAnchor(parts) ==
    LET last_lower == IF parts # <<>> THEN Lower(parts[Len(parts)]) ELSE <<>>
    IN  IF last_lower # STR_transformations
           /\ STR_transformations \notin Range(LowerParts(parts))
        THEN parts \o <<STR_Transformations>>
        ELSE parts

\* for fname in candidates: a file that cannot be read is passed over.
RECURSIVE ReadCandidates(_, _, _)
ReadCandidates(candidates, usecase, provider) ==
    IF candidates = <<>> THEN <<>>
    ELSE (IF Head(candidates).readable
          THEN <<Record(usecase, provider, parse_dependency_csv(Head(candidates).content))>>
          ELSE <<>>)
         \o ReadCandidates(Tail(candidates), usecase, provider)

\* candidates = [fn for fn in filenames if _looks_like_dependency_log(fn.lower())]
RECURSIVE Candidates(_)
Candidates(files) ==
    IF files = <<>> THEN <<>>
    ELSE (IF _looks_like_dependency_log(Lower(Head(files).name))
          THEN <<Head(files)>> ELSE <<>>)
         \o Candidates(Tail(files))

\* scan_local_directory, one (dirpath, filenames) of os.walk: the records the
\* directory adds to results.
ScanDirectory(dir) ==
    LET candidates == Candidates(dir.files)
    IN  IF candidates = <<>> THEN <<>>
        ELSE LET id == _infer_usecase_provider_from_parts(
                           EnsureAnchor(RelParts(dir.rel_path)))
             IN  IF Falsy(id[1]) \/ Falsy(id[2]) THEN <<>>
                 ELSE ReadCandidates(candidates, id[1], id[2])

\* The variant a slip would give: fname.split(".")[0], the name cut at its
\* first dot.
SplitHead(fname, i) ==
    LET dots == {k \in 1..i : fname[k] = "."}
    IN  IF dots = {} THEN fname
        ELSE SubSeq(fname, 1, (CHOOSE k \in dots : \A j \in dots : k <= j) - 1)

\* fname.rsplit(".", 1)[0]
RECURSIVE RSplitHead(_, _)
RSplitHead(fname, i) ==
    IF i = 0 THEN fname
    ELSE IF fname[i] = "." THEN SubSeq(fname, 1, i - 1)
    ELSE RSplitHead(fname, i - 1)

\* parse_dependency_logs_from_files: file_dict as the sequence of its items.
parse_dependency_logs_from_files(file_dict) ==
    [i \in 1..Len(file_dict) |->
       Record(RSplitHead(file_dict[i].name, Len(file_dict[i].name)), STR_NA,
              parse_dependency_csv(file_dict[i].content))]

-----------------------------------------------------------------------------
(* One run of the Streamlit script (streamlit_app.py) on bounded inputs. *)

\* Most members of an archive, directories of a walk, and files of a directory
\* or of an upload.
MaxMembers == 2

MaxDirs == 2

MaxFiles == 2

\* Names and contents of files.
FN_PLAIN == <<"d", "e", "p", "e", "n", "d", "e", "n", "c", "i", "e", "s", "_", "l", "o", "g">>

FN_TXT == <<"D", "e", "p", "e", "n", "d", "_", "L", "o", "g", ".", "T", "X", "T">>

FN_XLSX == <<"d", "e", "p", "e", "n", "d", "e", "n", "c", "y", "_", "l", "o", "g", ".", "x", "l", "s", "x">>

FN_LOG == <<"a", ".", "d", "e", "p", "e", "n", "d", ".", "l", "o", "g">>

FileNames == {FN_PLAIN, FN_TXT, FN_XLSX}

TEXT_HEADER == <<"n", ";", "c", ";", "K", "i", "n", "d", ";", "N", "a", "m", "e", ";", "W", "h", "e", "r", "e">>

TEXT_ROW == <<"1", ";", "c", ";", "F", "M", ";", "Z", "_", "T", ";", "C", "A", "L", "L", " ", "F", "U", "N", "C", "T", "I", "O", "N">>

TEXT_LOG == TEXT_HEADER \o NL \o TEXT_ROW \o NL

\* Files of an archive or of a directory: one that reads as a log with one FM
\* call, and one that cannot be read (no content to tell apart).
FileInputs ==
    {File(n, TRUE, TEXT_LOG) : n \in FileNames}
      \cup {File(n, FALSE, <<>>) : n \in FileNames}

\* Files of an upload: the uploader hands over the bytes of each file.  It
\* offers .txt and .log names; parse_dependency_logs_from_files takes any
\* name, so a name without a dot is among them.
UploadFileInputs ==
    {File(n, TRUE, c) : n \in {FN_TXT, FN_LOG, FN_PLAIN},
                        c \in {TEXT_HEADER, TEXT_LOG}}

\* Lists of at most n of the files, with different names.
RECURSIVE FileLists(_, _)
FileLists(files, n) ==
    IF n = 0 THEN {<<>>}
    ELSE FileLists(files, n - 1) \cup
         UNION {{Append(l, f) : f \in {g \in files :
                                          \A i \in 1..Len(l) : l[i].name # g.name}} :
                  l \in {k \in FileLists(files, n - 1) : Len(k) = n - 1}}

\* Folder names of a path.
Folders == {SEG_A, SEG_B, SEG_T2}

\* Paths of n folders with different names.
RECURSIVE PathsOfLen(_)
PathsOfLen(n) ==
    IF n = 0 THEN {<<>>}
    ELSE UNION {{Append(p, s) : s \in Folders \ Range(p)} : p \in PathsOfLen(n - 1)}

Paths == UNION {PathsOfLen(n) : n \in 0..Cardinality(Folders)}

\* A directory of the walk: os.path.relpath gives "." for the root and else
\* the folders joined by the platform's separator.
Directory(parts, sep, files) ==
    [rel_path |-> IF parts = <<>> THEN DOT ELSE Join(parts, sep),
     parts |-> parts,
     files |-> files]

DirectoryInputs ==
    {Directory(p, sep, l) :
       p \in Paths, sep \in {SLASH, BACKSLASH},
       l \in FileLists(FileInputs, MaxFiles)}

\* A member of the archive's listing: a file in a folder, the folder itself
\* (the name ends with "/"), or the file with a doubled slash in its name.
Member(name, parts, readable, content) ==
    [name |-> name, parts |-> parts, readable |-> readable, content |-> content]

MemberInputs ==
    {Member(Join(Append(p, f.name), SLASH), Append(p, f.name), f.readable,
            f.content) : p \in Paths, f \in FileInputs}
    \cup {Member(Join(p, SLASH) \o SLASH, p, TRUE, <<>>) : p \in Paths \ {<<>>}}
    \cup {Member(SLASH \o Join(p, SLASH) \o SLASH \o SLASH \o f.name,
                 Append(p, f.name), f.readable, f.content) :
            p \in Paths \ {<<>>}, f \in FileInputs}

\* An upload: at least one file.
UploadInputs == FileLists(UploadFileInputs, MaxFiles) \ {<<>>}

\* scan_zip_structure and scan_local_directory on each input of the run.
MemberScan == [member \in MemberInputs |-> ScanMember(member)]

DirectoryScan == [dir \in DirectoryInputs |-> ScanDirectory(dir)]

NoInput == [kind |-> "none"]

NoAnalysis == <<"none", NoTables>>

AppInit ==
    /\ pc = "start"
    /\ mode = "none"
    /\ parsed_records = <<>>
    /\ nscanned = 0
    /\ lastInput = NoInput
    /\ lastEmitted = <<>>
    /\ messages = {}
    /\ failure = "none"
    /\ run_analysis = FALSE
    /\ analysis = NoAnalysis
    /\ exported = FALSE

\* Mode 1 is chosen and a ZIP is uploaded: scan_zip_structure starts.
UploadZip ==
    /\ pc = "start"
    /\ mode' = "zip"
    /\ pc' = "scan_zip"
    /\ UNCHANGED <<parsed_records, nscanned, lastInput, lastEmitted, messages,
                   failure, run_analysis, analysis, exported>>
    /\ UNCHANGED notAppVars

\* scan_zip_structure: the next member of the listing.
ScanZipMember ==
    /\ pc = "scan_zip"
    /\ nscanned < MaxMembers
    /\ \E member \in MemberInputs :
       \E res \in {MemberScan[member]} :
         /\ lastInput' = [kind |-> "member", member |-> member]
         /\ lastEmitted' = res[2]
         /\ IF res[1] = "raise"
            THEN /\ pc' = "crashed"
                 /\ failure' = "zip_read"
                 /\ parsed_records' = <<>>
            ELSE /\ pc' = pc
                 /\ failure' = failure
                 /\ parsed_records' = parsed_records \o res[2]
    /\ nscanned' = nscanned + 1
    /\ UNCHANGED <<mode, messages, run_analysis, analysis, exported>>
    /\ UNCHANGED notAppVars

\* scan_zip_structure returns: the listing is exhausted.
ScanZipReturn ==
    /\ pc = "scan_zip"
    /\ pc' = "button"
    /\ lastInput' = NoInput
    /\ lastEmitted' = <<>>
    /\ UNCHANGED <<mode, parsed_records, nscanned, messages, failure,
                   run_analysis, analysis, exported>>
    /\ UNCHANGED notAppVars

\* Mode 2 is chosen and files are uploaded: the mapping of their names to
\* their texts goes through parse_dependency_logs_from_files.
UploadFiles ==
    /\ pc = "start"
    /\ mode' = "files"
    /\ \E file_dict \in UploadInputs :
       \E recs \in {parse_dependency_logs_from_files(file_dict)} :
         /\ parsed_records' = recs
         /\ lastInput' = [kind |-> "files", file_dict |-> file_dict]
         /\ lastEmitted' = recs
    /\ pc' = "button"
    /\ UNCHANGED <<nscanned, messages, failure, run_analysis, analysis, exported>>
    /\ UNCHANGED notAppVars

\* Mode 3 is chosen and a folder path entered: scan_local_directory starts if
\* the path exists, else the path is reported invalid.
EnterFolder ==
    /\ pc = "start"
    /\ mode' = "local"
    /\ \E exists \in BOOLEAN :
         IF exists
         THEN pc' = "scan_walk" /\ messages' = messages
         ELSE pc' = "button" /\ messages' = messages \cup {"invalid_local_path"}
    /\ UNCHANGED <<parsed_records, nscanned, lastInput, lastEmitted, failure,
                   run_analysis, analysis, exported>>
    /\ UNCHANGED notAppVars

\* scan_local_directory: the next directory of os.walk.
ScanWalkDirectory ==
    /\ pc = "scan_walk"
    /\ nscanned < MaxDirs
    /\ \E dir \in DirectoryInputs :
       \E recs \in {DirectoryScan[dir]} :
         /\ lastInput' = [kind |-> "dir", dir |-> dir]
         /\ lastEmitted' = recs
         /\ parsed_records' = parsed_records \o recs
    /\ nscanned' = nscanned + 1
    /\ UNCHANGED <<pc, mode, messages, failure, run_analysis, analysis, exported>>
    /\ UNCHANGED notAppVars

\* scan_local_directory returns: the walk is over.
ScanWalkReturn ==
    /\ pc = "scan_walk"
    /\ pc' = "button"
    /\ lastInput' = NoInput
    /\ lastEmitted' = <<>>
    /\ UNCHANGED <<mode, parsed_records, nscanned, messages, failure,
                   run_analysis, analysis, exported>>
    /\ UNCHANGED notAppVars

\* A mode is chosen and nothing is uploaded or entered.
NoUpload ==
    /\ pc = "start"
    /\ \E m \in {"zip", "files", "local"} : mode' = m
    /\ pc' = "button"
    /\ UNCHANGED <<parsed_records, nscanned, lastInput, lastEmitted, messages,
                   failure, run_analysis, analysis, exported>>
    /\ UNCHANGED notAppVars

\* run_analysis = st.button("Start Analysis"): pressed or not.  Not pressed,
\* the script ends with the hint to upload and click.
StartButton ==
    /\ pc = "button"
    /\ \E pressed \in BOOLEAN :
         /\ run_analysis' = pressed
         /\ IF pressed
            THEN pc' = "check" /\ messages' = messages
            ELSE pc' = "idle" /\ messages' = messages \cup {"upload_and_click"}
    /\ UNCHANGED <<mode, parsed_records, nscanned, lastInput, lastEmitted,
                   failure, analysis, exported>>
    /\ UNCHANGED notAppVars

\* The variant a slip would give: no test of parsed_records.
CheckRecordsNever ==
    /\ pc = "check"
    /\ pc' = "analysis"
    /\ UNCHANGED <<mode, parsed_records, nscanned, lastInput, lastEmitted,
                   messages, failure, run_analysis, analysis, exported>>
    /\ UNCHANGED notAppVars

\* if not parsed_records: st.error(...); st.stop()
CheckRecords ==
    /\ pc = "check"
    /\ IF parsed_records = <<>>
       THEN pc' = "stopped" /\ messages' = messages \cup {"no_valid_logs"}
       ELSE pc' = "analysis" /\ messages' = messages
    /\ UNCHANGED <<mode, parsed_records, nscanned, lastInput, lastEmitted,
                   failure, run_analysis, analysis, exported>>
    /\ UNCHANGED notAppVars

\* build_analysis_outputs(parsed_records); an exception ends the script.
BuildTables ==
    /\ pc = "analysis"
    /\ \E res \in build_analysis_outputs(parsed_records) :
         /\ analysis' = res
         /\ IF res[1] = "ok"
            THEN pc' = "export" /\ failure' = failure
            ELSE pc' = "crashed" /\ failure' = res[1]
    /\ UNCHANGED <<mode, parsed_records, nscanned, lastInput, lastEmitted,
                   messages, run_analysis, exported>>
    /\ UNCHANGED notAppVars

\* create_excel_workbook(...) and the download buttons.
Export ==
    /\ pc = "export"
    /\ exported' = TRUE
    /\ pc' = "done"
    /\ UNCHANGED <<mode, parsed_records, nscanned, lastInput, lastEmitted,
                   messages, failure, run_analysis, analysis>>
    /\ UNCHANGED notAppVars

AppNext ==
    \/ UploadZip \/ ScanZipMember \/ ScanZipReturn
    \/ UploadFiles
    \/ EnterFolder \/ ScanWalkDirectory \/ ScanWalkReturn
    \/ NoUpload
    \/ StartButton \/ CheckRecords \/ BuildTables \/ Export
-----------------------------------------------------------------------------
(* The contract of discovery and of the script, stated on the last input of   *)
(* discovery (lastInput), what it added to the batch (lastEmitted) and the     *)
(* script's position.                                                          *)

\* The extension of a lowercased name: from its last "." on, empty without one.
RECURSIVE ExtensionFrom(_, _)
ExtensionFrom(name, i) ==
    IF i = 0 THEN <<>>
    ELSE IF name[i] = "." THEN SubSeq(name, i, Len(name))
    ELSE ExtensionFrom(name, i - 1)

Extension(name) == ExtensionFrom(name, Len(name))

\* A candidate file of the walk: "depend" and "log" in its lowercased name and
\* the extension .txt, .log or none.
IsCandidate(name) ==
    /\ Contains(STR_depend, Lower(name))
    /\ Contains(STR_log, Lower(name))
    /\ Extension(Lower(name)) \in {STR_DOT_TXT, STR_DOT_LOG, <<>>}

\* The segments that equal "transformations" whatever their case.
AnchorsOf(parts) == {i \in 1..Len(parts) : Lower(parts[i]) = STR_transformations}

\* The identity of a path that holds an anchor: the two segments before its
\* first anchor, none when fewer than two precede it.
IdentityOf(parts) ==
    LET first == CHOOSE i \in AnchorsOf(parts) : \A j \in AnchorsOf(parts) : i <= j
    IN  IF first >= 3 THEN <<parts[first - 2], parts[first - 1]>> ELSE NotResolvable

\* One record with the given identity per readable candidate, in the order of
\* the listing.
RECURSIVE RecordsOf(_, _, _)
RecordsOf(files, usecase, provider) ==
    IF files = <<>> THEN <<>>
    ELSE (IF IsCandidate(Head(files).name) /\ Head(files).readable
          THEN <<Record(usecase, provider, parse_dependency_csv(Head(files).content))>>
          ELSE <<>>)
         \o RecordsOf(Tail(files), usecase, provider)

\* The readable candidates of a directory.
ReadableCandidates(files) ==
    {i \in 1..Len(files) : IsCandidate(files[i].name) /\ files[i].readable}

\* An archive member that is a log whose identity resolves.
IsResolvableLog(member) ==
    /\ member.name[Len(member.name)] # "/"
    /\ Contains(STR_depend, Lower(member.name))
    /\ Contains(STR_log, Lower(member.name))
    /\ AnchorsOf(member.parts) # {}
    /\ IdentityOf(member.parts) # NotResolvable

\* A directory of the walk whose identity resolves, the anchor appended when
\* the path holds none.
IsResolvableDirectory(dir) ==
    IF AnchorsOf(dir.parts) = {} THEN Len(dir.parts) >= 2
    ELSE IdentityOf(dir.parts) # NotResolvable

(* C8: in the archive-member strategy and in the directory-walk strategy, a   *)
(* file that cannot be read or whose identity does not resolve never raises   *)
(* out of discovery and never aborts the batch: discovery goes on, that file  *)
(* adds no record, and every other candidate that is readable and resolvable  *)
(* adds its record to the batch.                                              *)
C8_DiscoveryNeverRaises ==
    /\ lastInput.kind = "member" =>
         /\ pc = "scan_zip"
         /\ failure = "none"
         /\ Len(lastEmitted) =
              (IF IsResolvableLog(lastInput.member) /\ lastInput.member.readable
               THEN 1 ELSE 0)
         /\ Len(parsed_records) >= Len(lastEmitted)
         /\ SubSeq(parsed_records, Len(parsed_records) - Len(lastEmitted) + 1,
                   Len(parsed_records)) = lastEmitted
    /\ lastInput.kind = "dir" =>
         /\ pc = "scan_walk"
         /\ failure = "none"
         /\ Len(lastEmitted) =
              (IF IsResolvableDirectory(lastInput.dir)
               THEN Cardinality(ReadableCandidates(lastInput.dir.files)) ELSE 0)
         /\ Len(parsed_records) >= Len(lastEmitted)
         /\ SubSeq(parsed_records, Len(parsed_records) - Len(lastEmitted) + 1,
                   Len(parsed_records)) = lastEmitted

(* C11: in the archive-member strategy a member of the listing yields one     *)
(* record exactly when its name does not end with "/", its lowercased name    *)
(* holds "depend" and "log", and its non-empty "/"-separated segments resolve *)
(* to an identity; every other member is skipped without a record, and the    *)
(* record, with the resolved (use_case, provider), follows in the batch the   *)
(* records of the members listed before it.                                   *)
C11_ArchiveListing ==
    lastInput.kind = "member" =>
        LET member == lastInput.member
            id == IdentityOf(member.parts)
            expected ==
                IF IsResolvableLog(member)
                THEN <<Record(id[1], id[2], parse_dependency_csv(member.content))>>
                ELSE <<>>
        IN  /\ lastEmitted = expected
            /\ Len(parsed_records) >= Len(expected)
            /\ SubSeq(parsed_records, Len(parsed_records) - Len(expected) + 1,
                      Len(parsed_records)) = expected

\* A name with its final extension stripped; a name without a dot is whole.
WithoutExtension(name) == SubSeq(name, 1, Len(name) - Len(Extension(name)))

(* C12: in the flat-upload strategy parse_dependency_logs_from_files gives    *)
(* one record per entry of the mapping, in the order of the entries: its      *)
(* use_case is the filename with only the final extension stripped (whole     *)
(* when the name has no dot), its provider is "N/A" and its FMs are the       *)
(* parser's result on the entry's text; no entry is skipped and no identity   *)
(* is resolved from the name.                                                 *)
C12_FlatUpload ==
    lastInput.kind = "files" =>
        LET file_dict == lastInput.file_dict
        IN  /\ Len(lastEmitted) = Len(file_dict)
            /\ \A i \in 1..Len(file_dict) :
                 /\ lastEmitted[i].usecase = WithoutExtension(file_dict[i].name)
                 /\ lastEmitted[i].provider = STR_NA
                 /\ lastEmitted[i].fms = parse_dependency_csv(file_dict[i].content)
            /\ parsed_records = lastEmitted

\* C12: an upload of a.depend.log (one FM call) and of dependencies_log (a
\* header only): two records, a.depend and dependencies_log.
C12_Witness ==
    /\ lastInput.kind = "files"
    /\ Len(lastInput.file_dict) = 2
    /\ lastInput.file_dict[1] = File(FN_LOG, TRUE, TEXT_LOG)
    /\ lastInput.file_dict[2] = File(FN_PLAIN, TRUE, TEXT_HEADER)
    /\ parsed_records = <<Record(<<"a", ".", "d", "e", "p", "e", "n", "d">>, STR_NA, <<<<"Z", "_", "T">>>>),
                          Record(FN_PLAIN, STR_NA, <<>>)>>

\* The script is past discovery: the button has been rendered.
PastDiscovery == pc \in {"button", "idle", "check", "stopped", "analysis",
                         "export", "done"}

\* build_analysis_outputs has been called.
AggregatorInvoked == analysis # NoAnalysis

(* C9: in every run build_analysis_outputs is invoked only after discovery    *)
(* and parsing have finished for the selected mode (the batch no longer       *)
(* changes) and only on a batch of at least one record; when the analysis is  *)
(* started on a batch of zero records the empty batch is reported to the user *)
(* and neither the aggregator nor the export is reached.                      *)
C9_AggregatorAfterDiscovery ==
    /\ [](AggregatorInvoked \/ exported =>
            /\ run_analysis
            /\ parsed_records # <<>>
            /\ mode \in {"zip", "files", "local"})
    /\ [](run_analysis /\ parsed_records = <<>> /\ pc # "check" =>
            /\ pc = "stopped"
            /\ "no_valid_logs" \in messages
            /\ ~AggregatorInvoked
            /\ ~exported)
    /\ [][/\ analysis' # analysis =>
               /\ PastDiscovery
               /\ parsed_records # <<>>
               /\ parsed_records' = parsed_records
          /\ exported' # exported => AggregatorInvoked /\ parsed_records # <<>>
          /\ parsed_records' # parsed_records => ~PastDiscovery /\ ~AggregatorInvoked
          /\ PastDiscovery => PastDiscovery' \/ pc' = "crashed"]_vars

\* C9: a run whose discovery found nothing and whose analysis was started: the
\* empty batch is reported and the script stops.
C9_Witness ==
    /\ mode = "zip"
    /\ nscanned = MaxMembers
    /\ run_analysis
    /\ parsed_records = <<>>
    /\ pc = "stopped"
    /\ "no_valid_logs" \in messages

(* C10: in the directory-walk strategy, a visited directory that holds a      *)
(* candidate file (a name with "depend" and "log" and the extension .txt,     *)
(* .log or none) and whose relative path holds no "transformations" segment,  *)
(* whatever the case, is resolved with a synthetic "Transformations" segment  *)
(* appended: its identity is its last two relative segments, and with fewer   *)
(* than two segments (the root included) it yields no record.  When           *)
(* resolution fails none of its candidates is emitted; when it succeeds each  *)
(* of its readable candidates yields one record with that (use_case,          *)
(* provider).                                                                 *)
C10_DirectoryWalk ==
    lastInput.kind = "dir"
      /\ (\E i \in 1..Len(lastInput.dir.files) :
            IsCandidate(lastInput.dir.files[i].name)) =>
        LET parts == lastInput.dir.parts
            files == lastInput.dir.files
        IN  IF AnchorsOf(parts) = {}
            THEN IF Len(parts) < 2 THEN lastEmitted = <<>>
                 ELSE lastEmitted =
                        RecordsOf(files, parts[Len(parts) - 1], parts[Len(parts)])
            ELSE IF IdentityOf(parts) = NotResolvable THEN lastEmitted = <<>>
                 ELSE lastEmitted =
                        RecordsOf(files, IdentityOf(parts)[1], IdentityOf(parts)[2])

\* C10: a directory UC1\prov with no anchor in its path, holding a readable
\* candidate and an unreadable one, after a first directory that added a
\* record: one more record, with the last two segments as its identity.
C10_Witness ==
    /\ lastInput.kind = "dir"
    /\ lastInput.dir.parts = <<SEG_A, SEG_B>>
    /\ lastInput.dir.rel_path = SEG_A \o BACKSLASH \o SEG_B
    /\ Len(lastInput.dir.files) = 2
    /\ \A i \in 1..2 : IsCandidate(lastInput.dir.files[i].name)
    /\ lastEmitted = <<Record(SEG_A, SEG_B, <<<<"Z", "_", "T">>>>)>>
    /\ Len(parsed_records) = 2

-----------------------------------------------------------------------------
(* Specifications: the script, and each part of the program on its own      *)
(* bounded inputs.                                                           *)

Init == ParserInit /\ ResolverInit /\ AggInit /\ AppInit

Spec == Init /\ [][AppNext]_vars

SpecParser == Init /\ [][ParserNext]_vars

SpecResolver == Init /\ [][ResolverNext]_vars

SpecAgg == Init /\ [][AggNext]_vars

====
